---- MODULE Spec2Model ----
(***************************************************************************)
(* The arithmetic expression evaluator of src/Source Code/main.cpp:        *)
(* EnhancedTokenizer::tokenize, ImprovedParser::parse (shunting-yard),     *)
(* RefinedEvaluator::evaluate and the handleExpression driver with its     *)
(* CalculatorHistory, as a state machine that advances one loop iteration  *)
(* of the running stage per step.                                          *)
(*                                                                         *)
(* A std::string is a sequence of one-character strings.  A double is an   *)
(* extended rational <<kind, n, d>>: "fin" (n/d in lowest terms, d > 0),   *)
(* "inf" (n = 1 or -1), "nan", or "irr", a finite non-zero value that is   *)
(* not rational (a power with a fractional exponent).  The exponent range  *)
(* of the double is scaled down to MaxDouble; rounding of the mantissa and *)
(* the sign of a zero are not kept.                                        *)
(***************************************************************************)
EXTENDS Integers, Sequences, FiniteSets, TLC

VARIABLES
    stdin,             \* the lines the user will still type at the prompt
    pc,                \* where the program is
    expression,        \* handleExpression: the line read by getline
    pos,               \* tokenize: characters of iss already consumed
    c,                 \* tokenize: the character last extracted by iss >> c
    mayBeUnary,        \* tokenize: the unary flag
    tokens,            \* tokenize's vector, then handleExpression's tokens
    tokIdx,            \* parse: index of the token the for loop is at
    precedence,        \* parse: the local precedence map
    outputQueue,       \* parse: the output queue
    operatorStack,     \* parse: the operator stack (top is the last element)
    parsedExpression,  \* what parse returned, then evaluate's by-value copy
    evaluationStack,   \* evaluate: the stack of doubles (top is the last)
    evalResult,        \* what evaluate returned
    thrown,            \* the exception in flight: <<type, what()>>
    result,            \* handleExpression: the result string
    history            \* CalculatorHistory::history

vars == <<stdin, pc, expression, pos, c, mayBeUnary, tokens, tokIdx, precedence,
          outputQueue, operatorStack, parsedExpression, evaluationStack,
          evalResult, thrown, result, history>>

---------------------------------------------------------------------------
(* Bounds of the model. *)

\* Longest input line of the character-level specification.
MaxLen == 3
\* Largest magnitude of a finite double (DBL_MAX, scaled); 1/MaxDouble is the
\* smallest positive magnitude.
MaxDouble == 100
\* Most binary operators in a generated infix expression.
MaxOps == 2
\* Most consecutive unary minus signs in front of a generated operand.
MaxUnary == 2
\* Longest token sequence handed to parse directly.
MaxTokens == 3
\* Most expressions entered in one session.
MaxRequests == 3

---------------------------------------------------------------------------
(* Characters. *)

\* std::isdigit in the "C" locale
IsDigit(ch) == ch \in {"0", "1", "2", "3", "4", "5", "6", "7", "8", "9"}

\* IsSpace with a fault: no character counts as white space
IsSpaceNever(ch) == FALSE

\* std::isspace in the "C" locale (the space and the tab stand for all six)
IsSpace(ch) == ch \in {" ", "\t"}

isOperator(ch) == ch \in {"+", "-", "*", "/", "%", "^"}

DigitValue(ch) ==
    CASE ch = "0" -> 0 [] ch = "1" -> 1 [] ch = "2" -> 2 [] ch = "3" -> 3
      [] ch = "4" -> 4 [] ch = "5" -> 5 [] ch = "6" -> 6 [] ch = "7" -> 7
      [] ch = "8" -> 8 [] ch = "9" -> 9

\* struct Token
Token(value, type) == [value |-> value, type |-> type]

---------------------------------------------------------------------------
(* Doubles. *)

Abs(x) == IF x < 0 THEN -x ELSE x

RECURSIVE GCD(_, _)
GCD(a, b) == IF b = 0 THEN a ELSE GCD(b, a % b)

Zero == <<"fin", 0, 1>>
One  == <<"fin", 1, 1>>
NaN  == <<"nan", 0, 0>>
Irr  == <<"irr", 1, 0>>
Inf(sign) == <<"inf", sign, 0>>

Kind(x) == x[1]
IsZero(x) == Kind(x) = "fin" /\ x[2] = 0
Sgn(x) == IF x[2] > 0 THEN 1 ELSE IF x[2] < 0 THEN -1 ELSE 0

\* The double nearest n/d (d # 0): overflow gives an infinity, underflow a zero.
Dbl(n, d) ==
    LET s  == IF (n < 0) = (d < 0) THEN 1 ELSE -1
        an == Abs(n)
        ad == Abs(d)
        g  == GCD(an, ad)
        rn == an \div g
        rd == ad \div g
        \* a > MaxDouble * b, without forming the product
        Exceeds(a, b) ==
            a \div b > MaxDouble \/ (a \div b = MaxDouble /\ a % b # 0)
    IN  IF an = 0 THEN Zero
        ELSE IF Exceeds(rn, rd) THEN Inf(s)
        ELSE IF Exceeds(rd, rn) THEN Zero
        ELSE <<"fin", s * rn, rd>>

Neg(x) == IF Kind(x) = "nan" THEN NaN ELSE <<x[1], -x[2], x[3]>>

Add(l, r) ==
    CASE Kind(l) = "nan" \/ Kind(r) = "nan" -> NaN
      [] Kind(l) = "inf" -> IF Kind(r) = "inf" /\ Sgn(r) # Sgn(l) THEN NaN ELSE l
      [] Kind(r) = "inf" -> r
      [] Kind(l) = "irr" -> IF IsZero(r) THEN l ELSE Irr
      [] Kind(r) = "irr" -> IF IsZero(l) THEN r ELSE Irr
      [] OTHER -> Dbl(l[2] * r[3] + r[2] * l[3], l[3] * r[3])

Sub(l, r) == Add(l, Neg(r))

Mul(l, r) ==
    CASE Kind(l) = "nan" \/ Kind(r) = "nan" -> NaN
      [] Kind(l) = "inf" \/ Kind(r) = "inf" ->
            IF IsZero(l) \/ IsZero(r) THEN NaN ELSE Inf(Sgn(l) * Sgn(r))
      [] IsZero(l) \/ IsZero(r) -> Zero
      [] Kind(l) = "irr" \/ Kind(r) = "irr" -> <<"irr", Sgn(l) * Sgn(r), 0>>
      [] OTHER -> Dbl(l[2] * r[2], l[3] * r[3])

\* 1/x; the reciprocal of a zero is +infinity
Recip(x) ==
    CASE Kind(x) = "nan" -> NaN
      [] Kind(x) = "inf" -> Zero
      [] Kind(x) = "irr" -> x
      [] IsZero(x) -> Inf(1)
      [] OTHER -> Dbl(x[3], x[2])

Div(l, r) ==
    IF Kind(l) = "inf" /\ Kind(r) = "inf" THEN NaN
    ELSE IF IsZero(l) /\ IsZero(r) THEN NaN
    ELSE IF IsZero(r) THEN Mul(l, Inf(1))
    ELSE IF Kind(l) = "fin" /\ Kind(r) = "fin" THEN Dbl(l[2] * r[3], l[3] * r[2])
    ELSE Mul(l, Recip(r))

\* std::fmod: left - right * trunc(left / right)
Fmod(l, r) ==
    CASE Kind(l) = "nan" \/ Kind(r) = "nan" -> NaN
      [] Kind(l) = "inf" \/ IsZero(r) -> NaN
      [] Kind(r) = "inf" -> l
      [] IsZero(l) -> Zero
      [] Kind(l) = "irr" \/ Kind(r) = "irr" -> Irr
      [] OTHER ->
            LET ln == Abs(l[2]) * r[3]
                rn == Abs(r[2]) * l[3]
            IN  Dbl(Sgn(l) * (ln % rn), l[3] * r[3])

IsInteger(x) == Kind(x) = "fin" /\ x[3] = 1
IsOddInteger(x) == IsInteger(x) /\ x[2] % 2 # 0

\* x multiplied by itself k times (an overflow stays infinite, an underflow 0)
RECURSIVE PowNat(_, _)
PowNat(x, k) == IF k = 0 THEN One ELSE Mul(PowNat(x, k - 1), x)

\* |x| compared with 1: -1, 0, 1
AbsVsOne(x) ==
    CASE Kind(x) = "inf" -> 1
      [] Kind(x) = "irr" -> 1
      [] OTHER -> IF Abs(x[2]) > x[3] THEN 1 ELSE IF Abs(x[2]) < x[3] THEN -1 ELSE 0

\* std::pow
Pow(l, r) ==
    CASE IsZero(r) -> One
      [] l = One -> One
      [] Kind(l) = "nan" \/ Kind(r) = "nan" -> NaN
      [] Kind(r) = "inf" ->
            IF AbsVsOne(l) = 0 THEN One
            ELSE IF (AbsVsOne(l) > 0) = (Sgn(r) > 0) THEN Inf(1) ELSE Zero
      [] Kind(l) = "inf" ->
            IF Sgn(r) < 0 THEN Zero
            ELSE IF Sgn(l) < 0 /\ IsOddInteger(r) THEN Inf(-1) ELSE Inf(1)
      [] IsZero(l) -> IF Sgn(r) > 0 THEN Zero ELSE Inf(1)
      [] IsInteger(r) /\ Kind(l) = "fin" ->
            IF r[2] > 0 THEN PowNat(l, r[2]) ELSE PowNat(Recip(l), -r[2])
      [] IsInteger(r) -> IF r[2] % 2 = 0 THEN Irr ELSE l
      [] Sgn(l) < 0 -> NaN
      [] OTHER -> Irr

\* double applyOperator(double left, double right, const std::string& op)
applyOperator(left, right, op) ==
    CASE op = "+" -> Add(left, right)
      [] op = "-" -> Sub(left, right)
      [] op = "*" -> Mul(left, right)
      [] op = "/" -> Div(left, right)
      [] op = "%" -> Fmod(left, right)
      [] op = "^" -> Pow(left, right)
      [] op = "~" -> Neg(left)

---------------------------------------------------------------------------
(* std::stod *)

\* how many digits s holds from index i on, without a break
RECURSIVE DigitRun(_, _)
DigitRun(s, i) ==
    IF i <= Len(s) /\ IsDigit(s[i]) THEN 1 + DigitRun(s, i + 1) ELSE 0

\* the decimal number written by the digits s[i..j]
RECURSIVE DecValue(_, _, _)
DecValue(s, i, j) ==
    IF j < i THEN 0 ELSE 10 * DecValue(s, i, j - 1) + DigitValue(s[j])

RECURSIVE Pow10(_)
Pow10(k) == IF k = 0 THEN 1 ELSE 10 * Pow10(k - 1)

\* std::stod(lexeme): <<"value", x>>, or <<type>> of the exception it throws.
\* It converts the longest prefix "digits [. digits]" holding a digit, throws
\* std::invalid_argument when there is none, and std::out_of_range when strtod
\* reports ERANGE (the value overflows, or is non-zero and underflows).
stod(lexeme) ==
    LET ip   == DigitRun(lexeme, 1)
        dot  == ip + 1 <= Len(lexeme) /\ lexeme[ip + 1] = "."
        fp   == IF dot THEN DigitRun(lexeme, ip + 2) ELSE 0
        mant == DecValue(lexeme, 1, ip) * Pow10(fp)
                  + DecValue(lexeme, ip + 2, ip + 1 + fp)
        x    == Dbl(mant, Pow10(fp))
    IN  IF ip + fp = 0 THEN <<"std::invalid_argument">>
        ELSE IF Kind(x) = "inf" \/ (IsZero(x) /\ mant # 0)
             THEN <<"std::out_of_range">>
        ELSE <<"value", x>>

---------------------------------------------------------------------------
(* operator<<(std::ostream&, double) at the default precision: printf's %g *)
(* with six significant digits.                                            *)

\* floor(log10(a/d)) for a, d > 0
RECURSIVE Exp10(_, _)
Exp10(a, d) ==
    IF a < d THEN Exp10(a * 10, d) - 1
    ELSE IF a \div d >= 10 THEN Exp10(a, d * 10) + 1
    ELSE 0

\* <<floor(a/d * 10^(k-1)), remainder>> for d <= a < 10 * d
RECURSIVE Mantissa(_, _, _)
Mantissa(a, d, k) ==
    IF k = 1 THEN <<a \div d, a % d>>
    ELSE LET m == Mantissa(a, d, k - 1)
         IN  <<m[1] * 10 + (m[2] * 10) \div d, (m[2] * 10) % d>>

\* <<m, n>> without the trailing zeros of the n-digit number m
RECURSIVE StripZeros(_, _)
StripZeros(m, n) ==
    IF n > 1 /\ m % 10 = 0 THEN StripZeros(m \div 10, n - 1) ELSE <<m, n>>

\* m written with at least n digits
RECURSIVE Padded(_, _)
Padded(m, n) ==
    IF n <= 1 THEN ToString(m)
    ELSE IF m < Pow10(n - 1) THEN "0" \o Padded(m, n - 1)
    ELSE ToString(m)

Format(x) ==
    CASE Kind(x) = "nan" -> "-nan"      \* the invalid-operation NaN of x86
      [] Kind(x) = "inf" -> IF Sgn(x) < 0 THEN "-inf" ELSE "inf"
      [] Kind(x) = "irr" -> IF Sgn(x) < 0 THEN "-#.#####" ELSE "#.#####"
      [] IsZero(x) -> "0"
      [] OTHER ->
            LET a   == Abs(x[2])
                d   == x[3]
                e0  == Exp10(a, d)
                a0  == IF e0 < 0 THEN a * Pow10(-e0) ELSE a
                d0  == IF e0 > 0 THEN d * Pow10(e0) ELSE d
                m0  == Mantissa(a0, d0, 6)
                up  == 2 * m0[2] > d0 \/ (2 * m0[2] = d0 /\ m0[1] % 2 = 1)
                m1  == IF up THEN m0[1] + 1 ELSE m0[1]
                e   == IF m1 = 1000000 THEN e0 + 1 ELSE e0
                sz  == StripZeros(IF m1 = 1000000 THEN 100000 ELSE m1, 6)
                m   == sz[1]
                n   == sz[2]
                fix == IF e < 0 THEN "0." \o Padded(m, n - e - 1)
                       ELSE IF n <= e + 1 THEN ToString(m * Pow10(e + 1 - n))
                       ELSE ToString(m \div Pow10(n - e - 1)) \o "."
                              \o Padded(m % Pow10(n - e - 1), n - e - 1)
                sci == (IF n = 1 THEN ToString(m)
                        ELSE ToString(m \div Pow10(n - 1)) \o "."
                               \o Padded(m % Pow10(n - 1), n - 1))
                       \o (IF e < 0 THEN "e-" ELSE "e+") \o Padded(Abs(e), 2)
            IN  (IF x[2] < 0 THEN "-" ELSE "")
                  \o (IF e >= -4 /\ e < 6 THEN fix ELSE sci)

\* a std::string as one string, for building what() and for display
RECURSIVE Str(_)
Str(chars) == IF chars = <<>> THEN "" ELSE Head(chars) \o Str(Tail(chars))

---------------------------------------------------------------------------
(* EnhancedTokenizer::tokenize *)

\* iss >> c: the index of the first character after position p that is not
\* white space, 0 when the stream ends first
RECURSIVE Extract(_, _)
Extract(expr, p) ==
    IF p >= Len(expr) THEN 0
    ELSE IF IsSpace(expr[p + 1]) THEN Extract(expr, p + 1)
    ELSE p + 1

\* the inner while loop: the last index of the run of digits and '.' from i
RECURSIVE NumberEnd(_, _)
NumberEnd(expr, i) ==
    IF i < Len(expr) /\ (IsDigit(expr[i + 1]) \/ expr[i + 1] = ".")
    THEN NumberEnd(expr, i + 1)
    ELSE i

\* OperatorTokens with a fault: a unary plus is kept as a '+' token
OperatorTokensKeepPlus(toks, ch, unary) ==
    IF ch = "-" /\ unary THEN Append(toks, Token(<<"~">>, "OPERATOR"))
    ELSE Append(toks, Token(<<ch>>, "OPERATOR"))

\* the token an operator character adds, if any
OperatorTokens(toks, ch, unary) ==
    IF ch = "-" /\ unary THEN Append(toks, Token(<<"~">>, "OPERATOR"))
    ELSE IF ch = "+" /\ unary THEN toks
    ELSE Append(toks, Token(<<ch>>, "OPERATOR"))

\* the flag after a parenthesis
UnaryAfterParenthesis(ch) == ch = "("

\* InvalidResult with a fault: the tokens collected so far are kept
InvalidResultKeepsTokens(toks, ch) == Append(toks, Token(<<ch>>, "INVALID"))

\* what tokenize returns on a character that is none of the above
InvalidResult(toks, ch) == <<Token(<<ch>>, "INVALID")>>

\* One pass of while (iss >> c): the tokenizer's state after it.  done is set
\* when the function returns (the stream ended, or an invalid character).
TokenizeIteration(expr, t) ==
    LET i  == Extract(expr, t.pos)
        ch == expr[i]
    IN  IF i = 0
        THEN [t EXCEPT !.pos = Len(expr), !.done = TRUE]
        ELSE IF IsDigit(ch) \/ ch = "."
        THEN LET j == NumberEnd(expr, i)
             IN  [pos |-> j, c |-> ch, mayBeUnary |-> FALSE, done |-> FALSE,
                  tokens |-> Append(t.tokens, Token(SubSeq(expr, i, j), "NUMBER"))]
        ELSE IF isOperator(ch)
        THEN [pos |-> i, c |-> ch, mayBeUnary |-> TRUE, done |-> FALSE,
              tokens |-> OperatorTokens(t.tokens, ch, t.mayBeUnary)]
        ELSE IF ch = "(" \/ ch = ")"
        THEN [pos |-> i, c |-> ch, mayBeUnary |-> UnaryAfterParenthesis(ch),
              done |-> FALSE,
              tokens |-> Append(t.tokens, Token(<<ch>>, "PARENTHESIS"))]
        ELSE IF ~IsSpace(ch)
        THEN [pos |-> i, c |-> ch, mayBeUnary |-> t.mayBeUnary, done |-> TRUE,
              tokens |-> InvalidResult(t.tokens, ch)]
        ELSE [t EXCEPT !.pos = i, !.c = ch]

\* the tokenizer's locals when the loop is entered
TokenizeEntry ==
    [pos |-> 0, c |-> "", mayBeUnary |-> TRUE, done |-> FALSE, tokens |-> <<>>]

RECURSIVE TokenizeLoop(_, _)
TokenizeLoop(expr, t) ==
    IF t.done THEN t.tokens ELSE TokenizeLoop(expr, TokenizeIteration(expr, t))

\* std::vector<Token> tokenize(const std::string& expression)
tokenize(expr) == TokenizeLoop(expr, TokenizeEntry)

---------------------------------------------------------------------------
(* ImprovedParser::parse *)

\* the map parse builds on entry
PrecedenceTable ==
    (<<"~">> :> 4) @@ (<<"^">> :> 3) @@ (<<"*">> :> 2) @@ (<<"/">> :> 2)
      @@ (<<"%">> :> 2) @@ (<<"+">> :> 1) @@ (<<"-">> :> 1)

\* std::map::operator[]: the value read, and the map after the read (a key
\* that was missing is inserted with 0)
Lookup(prec, key) == IF key \in DOMAIN prec THEN prec[key] ELSE 0
Inserted(prec, key) == IF key \in DOMAIN prec THEN prec ELSE prec @@ (key :> 0)

Top(stack) == stack[Len(stack)]
Pop(stack) == SubSeq(stack, 1, Len(stack) - 1)

\* the condition on the two precedences under which the top is popped
PopsBefore(topPrec, tokenPrec) == topPrec >= tokenPrec

\* the while loop of an operator token: [outputQueue, operatorStack, precedence]
RECURSIVE PopOperators(_, _)
PopOperators(p, token) ==
    IF p.operatorStack = <<>> THEN p
    ELSE LET top  == Top(p.operatorStack)
             prec == Inserted(Inserted(p.precedence, top.value), token.value)
         IN  IF PopsBefore(Lookup(p.precedence, top.value),
                           Lookup(p.precedence, token.value))
             THEN PopOperators([outputQueue   |-> Append(p.outputQueue, top),
                                operatorStack |-> Pop(p.operatorStack),
                                precedence    |-> prec], token)
             ELSE [p EXCEPT !.precedence = prec]

\* the while loop of a ')': pops to the output down to the nearest "("
RECURSIVE PopToParenthesis(_)
PopToParenthesis(p) ==
    IF p.operatorStack # <<>> /\ Top(p.operatorStack).value # <<"(">>
    THEN PopToParenthesis([p EXCEPT !.outputQueue = Append(@, Top(p.operatorStack)),
                                    !.operatorStack = Pop(@)])
    ELSE p

\* One pass of the for loop over the tokens.  returned is set when the pass
\* ends in "return std::queue<Token>()".
ParseIteration(p, token) ==
    LET q == [p EXCEPT !.returned = FALSE]
    IN  IF token.type = "INVALID" THEN [q EXCEPT !.returned = TRUE]
        ELSE IF token.type = "NUMBER"
        THEN [q EXCEPT !.outputQueue = Append(@, token)]
        ELSE IF token.type = "OPERATOR"
        THEN LET r == PopOperators([outputQueue   |-> q.outputQueue,
                                    operatorStack |-> q.operatorStack,
                                    precedence    |-> q.precedence], token)
             IN  [outputQueue   |-> r.outputQueue,
                  operatorStack |-> Append(r.operatorStack, token),
                  precedence    |-> r.precedence,
                  returned      |-> FALSE]
        ELSE IF token.value = <<"(">>
        THEN [q EXCEPT !.operatorStack = Append(@, token)]
        ELSE LET r == PopToParenthesis(q)
             IN  IF r.operatorStack # <<>> /\ Top(r.operatorStack).value = <<"(">>
                 THEN [r EXCEPT !.operatorStack = Pop(@)]
                 ELSE [r EXCEPT !.returned = TRUE]

\* IsParenthesis with a fault: the test is missing
IsParenthesisNever(token) == FALSE

\* the test the loop after the tokens makes on the top of the stack
IsParenthesis(token) == token.type = "PARENTHESIS"

\* The loop after the tokens: pops what is left to the output; returned is
\* set when a parenthesis is met ("return std::queue<Token>()").
RECURSIVE ParseFlushLoop(_)
ParseFlushLoop(p) ==
    IF p.operatorStack = <<>> THEN p
    ELSE IF IsParenthesis(Top(p.operatorStack)) THEN [p EXCEPT !.returned = TRUE]
    ELSE ParseFlushLoop([p EXCEPT !.outputQueue = Append(@, Top(p.operatorStack)),
                                  !.operatorStack = Pop(@)])

\* the parser's locals when the loop is entered
ParseEntry ==
    [outputQueue |-> <<>>, operatorStack |-> <<>>, precedence |-> PrecedenceTable,
     returned |-> FALSE]

RECURSIVE ParseLoop(_, _, _)
ParseLoop(toks, i, p) ==
    IF p.returned THEN <<>>
    ELSE IF i > Len(toks)
    THEN LET f == ParseFlushLoop(p) IN IF f.returned THEN <<>> ELSE f.outputQueue
    ELSE ParseLoop(toks, i + 1, ParseIteration(p, toks[i]))

\* std::queue<Token> parse(const std::vector<Token>& tokens)
parse(toks) == ParseLoop(toks, 1, ParseEntry)

---------------------------------------------------------------------------
(* RefinedEvaluator::evaluate *)

NoException == <<"none", "">>
RuntimeError(what) == <<"std::runtime_error", what>>

\* NewEvaluationStack with a fault: the stack is a member that outlives the call
StaleEvaluationStack == evaluationStack

\* the stack evaluate starts with
NewEvaluationStack == <<>>

\* the test that guards '/' and '%'
DividesByZero(op, right) == (op = "/" \/ op = "%") /\ IsZero(right)

\* One pass of the while loop, for the token popped off the front of the
\* queue: [evaluationStack, thrown].
EvaluateIteration(stack, token) ==
    LET op == Str(token.value)
        n  == Len(stack)
    IN  IF token.type = "NUMBER"
        THEN LET v == stod(token.value)
             IN  IF v[1] = "value"
                 THEN [evaluationStack |-> Append(stack, v[2]), thrown |-> NoException]
                 ELSE [evaluationStack |-> stack, thrown |-> <<v[1], "stod">>]
        ELSE IF token.type # "OPERATOR"
        THEN [evaluationStack |-> stack, thrown |-> NoException]
        ELSE IF op = "~"
        THEN IF stack = <<>>
             THEN [evaluationStack |-> stack,
                   thrown |-> RuntimeError("Error: Insufficient operands for unary operator")]
             ELSE [evaluationStack |-> Append(Pop(stack), Neg(Top(stack))),
                   thrown |-> NoException]
        ELSE IF n < 2
        THEN [evaluationStack |-> stack,
              thrown |-> RuntimeError("Error: Insufficient operands for operator '"
                                        \o op \o "'")]
        ELSE LET right == stack[n]
                 left  == stack[n - 1]
                 rest  == SubSeq(stack, 1, n - 2)
             IN  IF DividesByZero(op, right)
                 THEN [evaluationStack |-> rest,
                       thrown |-> RuntimeError("Error: Attempted division/modulo by zero")]
                 ELSE [evaluationStack |-> Append(rest, applyOperator(left, right, op)),
                       thrown |-> NoException]

\* after the loop: <<"value", x>> or the exception
EvaluateExit(stack) ==
    IF Len(stack) # 1 THEN RuntimeError("Error: Invalid expression format")
    ELSE <<"value", Top(stack)>>

RECURSIVE EvaluateLoop(_, _)
EvaluateLoop(queue, stack) ==
    IF queue = <<>> THEN EvaluateExit(stack)
    ELSE LET e == EvaluateIteration(stack, Head(queue))
         IN  IF e.thrown # NoException THEN e.thrown
             ELSE EvaluateLoop(Tail(queue), e.evaluationStack)

\* double evaluate(std::queue<Token> parsedExpression): <<"value", x>>, or the
\* exception it throws
evaluate(queue) == EvaluateLoop(queue, NewEvaluationStack)

---------------------------------------------------------------------------
(* handleExpression, CalculatorHistory and main *)

InvalidExpression == "Error, Invalid expression"

\* the test handleExpression makes on what tokenize returned
RejectsTokens(toks) ==
    toks = <<>> \/ (Len(toks) = 1 /\ toks[1].type = "INVALID")

\* the exceptions the catch clause of handleExpression takes
Catches(exception) == exception[1] = "std::runtime_error"

\* void CalculatorHistory::addEntry(expression, result)
addEntry(h, expr, res) == Append(h, <<expr, res>>)

\* The whole of handleExpression on one line, without the steps: the result
\* string, or "terminate" when an exception leaves the function.
Outcome(expr) ==
    LET toks == tokenize(expr)
        rpn  == parse(toks)
        v    == evaluate(rpn)
    IN  IF RejectsTokens(toks) \/ rpn = <<>> THEN InvalidExpression
        ELSE IF v[1] = "value" THEN Format(v[2])
        ELSE IF Catches(v) THEN v[2]
        ELSE "terminate"

\* option 1: handleExpression reads the line and calls tokenize
handleExpression ==
    /\ pc = "menu"
    /\ stdin # <<>>
    /\ expression' = Head(stdin)
    /\ stdin' = Tail(stdin)
    /\ pos' = TokenizeEntry.pos
    /\ c' = TokenizeEntry.c
    /\ mayBeUnary' = TokenizeEntry.mayBeUnary
    /\ tokens' = TokenizeEntry.tokens
    /\ result' = ""
    /\ pc' = "tokenize"
    /\ UNCHANGED <<tokIdx, precedence, outputQueue, operatorStack,
                   parsedExpression, evaluationStack, evalResult, thrown, history>>

\* tokenize: one pass of while (iss >> c), or the return that ends it
TokenizeStep ==
    /\ pc = "tokenize"
    /\ LET t == TokenizeIteration(expression,
                   [pos |-> pos, c |-> c, mayBeUnary |-> mayBeUnary,
                    done |-> FALSE, tokens |-> tokens])
       IN  /\ pos' = t.pos
           /\ c' = t.c
           /\ mayBeUnary' = t.mayBeUnary
           /\ tokens' = t.tokens
           /\ pc' = IF t.done THEN "tokenized" ELSE "tokenize"
    /\ UNCHANGED <<stdin, expression, tokIdx, precedence, outputQueue, operatorStack,
                   parsedExpression, evaluationStack, evalResult, thrown, result,
                   history>>

\* handleExpression: the test on the tokens, then the call of parse
CheckTokens ==
    /\ pc = "tokenized"
    /\ IF RejectsTokens(tokens)
       THEN /\ result' = InvalidExpression
            /\ pc' = "output"
            /\ UNCHANGED <<tokIdx, precedence, outputQueue, operatorStack>>
       ELSE /\ tokIdx' = 1
            /\ precedence' = ParseEntry.precedence
            /\ outputQueue' = ParseEntry.outputQueue
            /\ operatorStack' = ParseEntry.operatorStack
            /\ pc' = "parse"
            /\ UNCHANGED result
    /\ UNCHANGED <<stdin, expression, pos, c, mayBeUnary, tokens, parsedExpression,
                   evaluationStack, evalResult, thrown, history>>

\* parse: one pass of the for loop, or the loop after it and the return
ParseStep ==
    /\ pc = "parse"
    /\ LET p == [outputQueue |-> outputQueue, operatorStack |-> operatorStack,
                 precedence |-> precedence, returned |-> FALSE]
           r == IF tokIdx <= Len(tokens) THEN ParseIteration(p, tokens[tokIdx])
                ELSE ParseFlushLoop(p)
       IN  /\ outputQueue' = r.outputQueue
           /\ operatorStack' = r.operatorStack
           /\ precedence' = r.precedence
           /\ IF r.returned
              THEN parsedExpression' = <<>> /\ pc' = "parsed" /\ UNCHANGED tokIdx
              ELSE IF tokIdx <= Len(tokens)
              THEN tokIdx' = tokIdx + 1 /\ UNCHANGED <<parsedExpression, pc>>
              ELSE parsedExpression' = r.outputQueue /\ pc' = "parsed"
                     /\ UNCHANGED tokIdx
    /\ UNCHANGED <<stdin, expression, pos, c, mayBeUnary, tokens, evaluationStack,
                   evalResult, thrown, result, history>>

\* handleExpression: the test on the queue, then the call of evaluate
CheckParsed ==
    /\ pc = "parsed"
    /\ IF parsedExpression = <<>>
       THEN /\ result' = InvalidExpression
            /\ pc' = "output"
            /\ UNCHANGED evaluationStack
       ELSE /\ evaluationStack' = NewEvaluationStack
            /\ pc' = "evaluate"
            /\ UNCHANGED result
    /\ UNCHANGED <<stdin, expression, pos, c, mayBeUnary, tokens, tokIdx, precedence,
                   outputQueue, operatorStack, parsedExpression, evalResult, thrown,
                   history>>

\* evaluate: one pass of the while loop, or the test after it and the return
EvaluateStep ==
    /\ pc = "evaluate"
    /\ IF parsedExpression # <<>>
       THEN LET e == EvaluateIteration(evaluationStack, Head(parsedExpression))
            IN  /\ parsedExpression' = Tail(parsedExpression)
                /\ evaluationStack' = e.evaluationStack
                /\ thrown' = e.thrown
                /\ pc' = IF e.thrown = NoException THEN "evaluate" ELSE "evaluated"
                /\ UNCHANGED evalResult
       ELSE LET x == EvaluateExit(evaluationStack)
            IN  /\ IF x[1] = "value"
                   THEN evalResult' = x[2] /\ UNCHANGED thrown
                   ELSE thrown' = x /\ UNCHANGED evalResult
                /\ pc' = "evaluated"
                /\ UNCHANGED <<parsedExpression, evaluationStack>>
    /\ UNCHANGED <<stdin, expression, pos, c, mayBeUnary, tokens, tokIdx, precedence,
                   outputQueue, operatorStack, result, history>>

\* handleExpression: the value is written to the string, or the exception is
\* caught; an exception the clause does not take leaves main: std::terminate
Catch ==
    /\ pc = "evaluated"
    /\ IF thrown = NoException
       THEN result' = Format(evalResult) /\ pc' = "output" /\ UNCHANGED thrown
       ELSE IF Catches(thrown)
       THEN result' = thrown[2] /\ thrown' = NoException /\ pc' = "output"
       ELSE pc' = "terminated" /\ UNCHANGED <<result, thrown>>
    /\ UNCHANGED <<stdin, expression, pos, c, mayBeUnary, tokens, tokIdx, precedence,
                   outputQueue, operatorStack, parsedExpression, evaluationStack,
                   evalResult, history>>

\* handleExpression: the result is printed and added to the history
Report ==
    /\ pc = "output"
    /\ history' = addEntry(history, expression, result)
    /\ pc' = "menu"
    /\ UNCHANGED <<stdin, expression, pos, c, mayBeUnary, tokens, tokIdx, precedence,
                   outputQueue, operatorStack, parsedExpression, evaluationStack,
                   evalResult, thrown, result>>

\* option 4
Quit ==
    /\ pc = "menu"
    /\ pc' = "exit"
    /\ UNCHANGED <<stdin, expression, pos, c, mayBeUnary, tokens, tokIdx, precedence,
                   outputQueue, operatorStack, parsedExpression, evaluationStack,
                   evalResult, thrown, result, history>>

\* main before the first option is read, with `lines` still to be typed
Started(lines) ==
    /\ stdin = lines
    /\ pc = "menu"
    /\ expression = <<>>
    /\ pos = 0
    /\ c = ""
    /\ mayBeUnary = TRUE
    /\ tokens = <<>>
    /\ tokIdx = 1
    /\ precedence = PrecedenceTable
    /\ outputQueue = <<>>
    /\ operatorStack = <<>>
    /\ parsedExpression = <<>>
    /\ evaluationStack = <<>>
    /\ evalResult = Zero
    /\ thrown = NoException
    /\ result = ""
    /\ history = <<>>

Next ==
    \/ handleExpression
    \/ TokenizeStep
    \/ CheckTokens
    \/ ParseStep
    \/ CheckParsed
    \/ EvaluateStep
    \/ Catch
    \/ Report
    \/ Quit

---------------------------------------------------------------------------
(* The lines typed. *)

\* all strings over `alphabet` of length at most n
RECURSIVE Strings(_, _)
Strings(alphabet, n) ==
    IF n = 0 THEN {<<>>}
    ELSE LET shorter == Strings(alphabet, n - 1)
         IN  shorter \cup {Append(s, ch) : s \in shorter, ch \in alphabet}

Alphabet == {"0", "2", "+", "-", "*", "/", "%", "^", "(", ")", " ", ".", "@", "#"}

Init == \E line \in Strings(Alphabet, MaxLen) : Started(<<line>>)

Spec == Init /\ [][Next]_vars

\* Infix expressions with exactly n binary operators over one-digit literals,
\* each operand that holds an operator with or without parentheses around it.
RECURSIVE Infix(_)
Operands(n) ==
    IF n = 0 THEN Infix(0)
    ELSE Infix(n) \cup {<<"(">> \o e \o <<")">> : e \in Infix(n)}
Infix(n) ==
    IF n = 0 THEN {<<d>> : d \in {"0", "1", "2"}}
    ELSE UNION {{a \o <<op>> \o b :
                   a \in Operands(i), b \in Operands(n - 1 - i),
                   op \in {"+", "-", "*", "/", "%", "^"}} : i \in 0..(n - 1)}

InitInfix == \E line \in UNION {Infix(n) : n \in 0..MaxOps} : Started(<<line>>)

SpecInfix == InitInfix /\ [][Next]_vars

\* One operand or two with an operator between them, each a one-digit literal
\* behind up to MaxUnary minus signs.
RECURSIVE Signs(_)
Signs(k) == IF k = 0 THEN <<>> ELSE <<"-">> \o Signs(k - 1)

SignedOperands == {Signs(k) \o <<d>> : k \in 0..MaxUnary, d \in {"0", "2"}}

SignedLines ==
    SignedOperands
      \cup {a \o <<op>> \o b : a \in SignedOperands, b \in SignedOperands,
                               op \in {"+", "-", "*", "/", "%", "^"}}

InitSigned == \E line \in SignedLines : Started(<<line>>)

SpecSigned == InitSigned /\ [][Next]_vars

\* Any tokens of the three kinds handed on by handleExpression, whether or not
\* tokenize can return them: the state when tokenize has returned.
TokenAlphabet ==
    {Token(<<"0">>, "NUMBER"), Token(<<"2">>, "NUMBER"),
     Token(<<"(">>, "PARENTHESIS"), Token(<<")">>, "PARENTHESIS")}
      \cup {Token(<<op>>, "OPERATOR") : op \in {"+", "-", "*", "/", "%", "^", "~"}}

InitTokens ==
    \E toks \in Strings(TokenAlphabet, MaxTokens) :
        /\ stdin = <<>>
        /\ pc = "tokenized"
        /\ expression = <<>>
        /\ pos = 0
        /\ c = ""
        /\ mayBeUnary = TRUE
        /\ tokens = toks
        /\ tokIdx = 1
        /\ precedence = PrecedenceTable
        /\ outputQueue = <<>>
        /\ operatorStack = <<>>
        /\ parsedExpression = <<>>
        /\ evaluationStack = <<>>
        /\ evalResult = Zero
        /\ thrown = NoException
        /\ result = ""
        /\ history = <<>>

NextTokens ==
    \/ CheckTokens
    \/ ParseStep
    \/ CheckParsed
    \/ EvaluateStep
    \/ Catch
    \/ Report

SpecTokens == InitTokens /\ [][NextTokens]_vars

\* A session of up to MaxRequests lines, each one of a few kinds of line.
SessionLines ==
    {<<"2">>, <<"-", "2">>, <<"2", "/", "0">>, <<"(", "2">>, <<"2", " ", "2">>,
     <<"@">>, <<"-", "-", "2">>, <<"2", "2", "2">>}

InitSession == \E lines \in Strings(SessionLines, MaxRequests) : Started(lines)

SpecSession == InitSession /\ [][Next]_vars

---------------------------------------------------------------------------
(* The reading of an infix expression that the claims refer to: the binary *)
(* operators by precedence ^ over * / % over + -, left to right among      *)
(* equals, parentheses first, and a sign in operand position applied to    *)
(* the operand that follows it.  It is defined on the characters, by       *)
(* splitting at the operator that is applied last.                         *)

RECURSIVE RefTrimLeft(_)
RefTrimLeft(s) == IF s # <<>> /\ s[1] = " " THEN RefTrimLeft(Tail(s)) ELSE s

RECURSIVE RefTrimRight(_)
RefTrimRight(s) ==
    IF s # <<>> /\ s[Len(s)] = " " THEN RefTrimRight(SubSeq(s, 1, Len(s) - 1)) ELSE s

RefTrim(s) == RefTrimRight(RefTrimLeft(s))

\* the number of "(" less the number of ")" in s[1..i]
RECURSIVE RefDepth(_, _)
RefDepth(s, i) ==
    IF i = 0 THEN 0
    ELSE RefDepth(s, i - 1) + (IF s[i] = "(" THEN 1 ELSE IF s[i] = ")" THEN -1 ELSE 0)

RefBalanced(s) ==
    /\ \A i \in 1..Len(s) : RefDepth(s, i) >= 0
    /\ RefDepth(s, Len(s)) = 0

\* the last index before i that holds no blank, 0 if there is none
RECURSIVE RefPrev(_, _)
RefPrev(s, i) == IF i <= 1 THEN 0 ELSE IF s[i - 1] = " " THEN RefPrev(s, i - 1) ELSE i - 1

RefOperators == {"+", "-", "*", "/", "%", "^"}
RefDigits == {"0", "1", "2", "3", "4", "5", "6", "7", "8", "9"}

\* the operator character at i has an operand ending before it
RefIsBinary(s, i) ==
    /\ s[i] \in RefOperators
    /\ RefPrev(s, i) # 0
    /\ s[RefPrev(s, i)] \in RefDigits \cup {".", ")"}

RefPrecedence(ch) == IF ch = "^" THEN 3 ELSE IF ch \in {"*", "/", "%"} THEN 2 ELSE 1

\* a decimal literal: digits with at most one '.', read as its double
RefIsLiteral(s) ==
    /\ \A i \in 1..Len(s) : s[i] \in RefDigits \cup {"."}
    /\ \E i \in 1..Len(s) : s[i] \in RefDigits
    /\ Cardinality({i \in 1..Len(s) : s[i] = "."}) <= 1

RefLiteral(s) ==
    LET digits == SelectSeq(s, LAMBDA ch : ch # ".")
        dots   == {i \in 1..Len(s) : s[i] = "."}
        places == IF dots = {} THEN 0 ELSE Len(s) - (CHOOSE i \in dots : TRUE)
    IN  Dbl(DecValue(digits, 1, Len(digits)), Pow10(places))

RefBad == <<"bad">>
RefDivZero == <<"divzero">>

\* <<"value", x>>, RefDivZero when a '/' or '%' has a zero right operand, or
\* RefBad when s is not a well-formed expression
RECURSIVE RefEval(_)
RefEval(s) ==
    LET t == RefTrim(s)
        n == Len(t)
        B == {i \in 1..n : RefDepth(t, i) = 0 /\ RefIsBinary(t, i)}
        lowest == CHOOSE q \in {RefPrecedence(t[i]) : i \in B} :
                      \A i \in B : q <= RefPrecedence(t[i])
        at == CHOOSE i \in B :
                  /\ RefPrecedence(t[i]) = lowest
                  /\ \A j \in B : RefPrecedence(t[j]) = lowest => j <= i
    IN  IF n = 0 \/ ~RefBalanced(t) THEN RefBad
        ELSE IF B # {}
        THEN LET l == RefEval(SubSeq(t, 1, at - 1))
                 r == RefEval(SubSeq(t, at + 1, n))
             IN  IF l = RefBad \/ r = RefBad THEN RefBad
                 ELSE IF l = RefDivZero \/ r = RefDivZero THEN RefDivZero
                 ELSE IF t[at] \in {"/", "%"} /\ IsZero(r[2]) THEN RefDivZero
                 ELSE <<"value", applyOperator(l[2], r[2], t[at])>>
        ELSE IF t[1] \in {"-", "+"}
        THEN LET v == RefEval(Tail(t))
             IN  IF v[1] = "value" /\ t[1] = "-" THEN <<"value", Neg(v[2])>> ELSE v
        ELSE IF t[1] = "(" /\ t[n] = ")" THEN RefEval(SubSeq(t, 2, n - 1))
        ELSE IF RefIsLiteral(t) THEN <<"value", RefLiteral(t)>>
        ELSE RefBad

WellFormed(s) == RefEval(s) # RefBad

---------------------------------------------------------------------------
(* Properties. *)

Last(seq) == seq[Len(seq)]

\* the characters tokenize accepts
ValidChars == RefDigits \cup RefOperators \cup {".", "(", ")", " ", "\t"}

\* the index of the first character of s that tokenize does not accept, or 0
FirstInvalid(s) ==
    IF \A i \in 1..Len(s) : s[i] \in ValidChars THEN 0
    ELSE CHOOSE i \in 1..Len(s) :
            /\ s[i] \notin ValidChars
            /\ \A j \in 1..(i - 1) : s[j] \in ValidChars

\* the stepwise run and the functions agree on every line
StepsAgree ==
    /\ pc = "tokenized" => tokens = tokenize(expression)
    /\ pc = "parsed" => parsedExpression = parse(tokens)
    /\ pc = "output" => result = Outcome(expression)
    /\ pc = "terminated" => Outcome(expression) = "terminate"

(* C1: a well-formed infix expression of non-negative integer literals,    *)
(* binary operators (no zero divisor) and balanced parentheses, without a  *)
(* unary sign, evaluates to its value read with ^ over * / % over + -,     *)
(* parentheses first, equal precedence left to right.                      *)
IntegerInfix(s) ==
    /\ \A i \in 1..Len(s) : s[i] \in RefDigits \cup RefOperators \cup {"(", ")", " "}
    /\ \A i \in 1..Len(s) : s[i] \in RefOperators => RefIsBinary(s, i)
    /\ RefEval(s)[1] = "value"

ReturnsValueOf(s) ==
    /\ pc # "terminated"
    /\ pc = "evaluated" => thrown = NoException /\ evalResult = RefEval(s)[2]
    /\ pc = "output" => result = Format(RefEval(s)[2])

C1_PrecedenceAndLeftAssociativity ==
    IntegerInfix(expression) => ReturnsValueOf(expression)

\* every number token of the line is a literal std::stod converts
LiteralsInRange(s) ==
    LET toks == tokenize(s)
    IN  \A i \in 1..Len(toks) :
            toks[i].type = "NUMBER" => stod(toks[i].value)[1] = "value"

\* C1 for the lines whose literals are doubles
C1_WithinDoubleRange ==
    IntegerInfix(expression) /\ LiteralsInRange(expression)
        => ReturnsValueOf(expression)

C1_Reached ==
    /\ pc = "output"
    /\ IntegerInfix(expression)
    /\ \E i \in 1..Len(expression) : expression[i] \in RefOperators
    /\ result = Format(RefEval(expression)[2])

(* C2: in a well-formed expression a '-' in operand position negates the   *)
(* operand that follows it, also when several signs follow one another: k  *)
(* signs before n give (-1)^k * n.                                         *)
HasUnaryMinus(s) ==
    \E i \in 1..Len(s) : s[i] = "-" /\ ~RefIsBinary(s, i)

C2_UnaryMinusNegates ==
    (/\ pc = "output"
     /\ HasUnaryMinus(expression)
     /\ RefEval(expression)[1] = "value")
        => result = Format(RefEval(expression)[2])

\* C2 for a single sign in each operand position
C2_Reached ==
    /\ pc = "output"
    /\ HasUnaryMinus(expression)
    /\ RefEval(expression)[1] = "value"
    /\ result = Format(RefEval(expression)[2])

(* C3: when the line holds a character that is no digit, '.', operator,    *)
(* parenthesis or white space, tokenize returns exactly one token, of type *)
(* INVALID, holding the first such character, and none of the tokens       *)
(* collected before it.                                                    *)
C3_InvalidCharacter ==
    (pc = "tokenized" /\ FirstInvalid(expression) # 0)
        => tokens = <<Token(<<expression[FirstInvalid(expression)]>>, "INVALID")>>

\* an invalid character after a number, with another one behind it
C3_Witness ==
    /\ pc = "tokenized"
    /\ Len(expression) = 3
    /\ IsDigit(expression[1])
    /\ FirstInvalid(expression) = 2
    /\ expression[3] \notin ValidChars
    /\ expression[3] # expression[2]
    /\ tokens = <<Token(<<expression[2]>>, "INVALID")>>

(* C6: a line of digits, operators, parentheses and white space ends in a  *)
(* numeric result or in one of the four errors; nothing else leaves the    *)
(* pipeline.                                                               *)
DefinedErrors ==
    {InvalidExpression,
     "Error: Insufficient operands for unary operator",
     "Error: Attempted division/modulo by zero",
     "Error: Invalid expression format"}
      \cup {"Error: Insufficient operands for operator '" \o op \o "'" :
               op \in RefOperators}

C6_NoOtherFailure ==
    (\A i \in 1..Len(expression) :
        expression[i] \in RefDigits \cup RefOperators \cup {"(", ")", " ", "\t"})
        => /\ pc # "terminated"
           /\ pc = "output" => result \in DefinedErrors \cup {Format(evalResult)}

(* C7: tokenizing, joining the lexemes with single spaces and tokenizing   *)
(* again gives the same tokens, for every line of valid characters, unary  *)
(* minus and unary plus included.                                          *)
RECURSIVE JoinLexemes(_)
JoinLexemes(toks) ==
    IF toks = <<>> THEN <<>>
    ELSE IF Len(toks) = 1 THEN toks[1].value
    ELSE toks[1].value \o <<" ">> \o JoinLexemes(Tail(toks))

HasUnaryMinusToken(toks) == \E i \in 1..Len(toks) : toks[i].value = <<"~">>

C7_RoundTrip ==
    (pc = "tokenized" /\ FirstInvalid(expression) = 0)
        => tokenize(JoinLexemes(tokens)) = tokens

\* C7 as amended: for the lines whose tokens hold no unary minus
C7_RoundTripWithoutUnaryMinus ==
    (pc = "tokenized" /\ FirstInvalid(expression) = 0 /\ ~HasUnaryMinusToken(tokens))
        => tokenize(JoinLexemes(tokens)) = tokens

\* three tokens written without blanks, a binary operator among them
C7_Witness ==
    /\ pc = "tokenized"
    /\ Len(expression) = 3
    /\ Len(tokens) = 3
    /\ tokens[2].type = "OPERATOR"
    /\ ~HasUnaryMinusToken(tokens)
    /\ JoinLexemes(tokens) # expression
    /\ tokenize(JoinLexemes(tokens)) = tokens

(* C9: while a line of valid characters is tokenized, '~' stands first or  *)
(* right after an operator or '('; a binary '-' or '+' stands right after  *)
(* a number or ')'; a '+' read while mayBeUnary holds adds no token; and   *)
(* mayBeUnary holds exactly when no token was emitted yet or the last      *)
(* character taken was an operator or '(', and fails exactly when the last *)
(* token is a number or ')'.                                               *)
C9_UnaryFlag ==
    (/\ pc \in {"tokenize", "tokenized"}
     /\ \A i \in 1..Len(tokens) : tokens[i].type # "INVALID")
        => /\ \A i \in 1..Len(tokens) :
                tokens[i].value = <<"~">>
                    => \/ i = 1
                       \/ tokens[i - 1].type = "OPERATOR"
                       \/ tokens[i - 1].value = <<"(">>
           /\ \A i \in 1..Len(tokens) :
                tokens[i].value \in {<<"-">>, <<"+">>}
                    => /\ i > 1
                       /\ \/ tokens[i - 1].type = "NUMBER"
                          \/ tokens[i - 1].value = <<")">>
           /\ Cardinality({i \in 1..Len(tokens) : tokens[i].value = <<"+">>})
                = Cardinality({i \in 1..pos :
                                 expression[i] = "+" /\ RefIsBinary(expression, i)})
           /\ mayBeUnary <=> (tokens = <<>> \/ c \in RefOperators \cup {"("})
           /\ ~mayBeUnary <=> /\ tokens # <<>>
                              /\ \/ Last(tokens).type = "NUMBER"
                                 \/ Last(tokens).value = <<")">>

\* a unary plus was dropped after an operator, and a unary minus kept
C9_Witness ==
    /\ pc = "tokenized"
    /\ Len(expression) = 3
    /\ expression[2] = "+"
    /\ expression[3] = "-"
    /\ Len(tokens) = 2
    /\ tokens[1].type = "OPERATOR"
    /\ tokens[2].value = <<"~">>
    /\ mayBeUnary

(* C4: when the parentheses of the tokens are not balanced, parse returns  *)
(* the empty queue and the line ends in the error, never in a number,      *)
(* wherever the unmatched parenthesis stands and whatever is on the stack. *)
Unbalanced(toks) ==
    /\ \A i \in 1..Len(toks) : toks[i].type # "INVALID"
    /\ ~RefBalanced(JoinLexemes(toks))

C4_UnbalancedParentheses ==
    Unbalanced(tokens)
        => /\ pc \notin {"evaluate", "evaluated", "terminated"}
           /\ pc = "parsed" => parsedExpression = <<>>
           /\ pc = "output" => result = InvalidExpression

\* a '(' left below two operators when the tokens end
C4_Witness ==
    /\ pc = "parsed"
    /\ Unbalanced(tokens)
    /\ parsedExpression = <<>>
    /\ Len(tokens) = 3
    /\ Len(outputQueue) = 2
    /\ Len(operatorStack) = 1
    /\ Top(operatorStack).value = <<"(">>

(* C5: evaluate, at a '/' or '%' with two values on the stack and a zero   *)
(* on top, throws the division/modulo-by-zero error, pushes nothing and    *)
(* takes no further token; so every well-formed expression whose divisor   *)
(* evaluates to zero ends in that error.                                   *)
DivisionByZero == "Error: Attempted division/modulo by zero"

C5_ZeroDivisorIsReported ==
    (WellFormed(expression) /\ RefEval(expression) = RefDivZero)
        => /\ pc # "terminated"
           /\ pc = "output" => result = DivisionByZero

\* C5, the step of evaluate alone
C5_EvaluateStep ==
    [][(/\ pc = "evaluate"
        /\ parsedExpression # <<>>
        /\ Head(parsedExpression).type = "OPERATOR"
        /\ Head(parsedExpression).value \in {<<"/">>, <<"%">>}
        /\ Len(evaluationStack) >= 2
        /\ IsZero(Top(evaluationStack)))
          => /\ pc' = "evaluated"
             /\ thrown' = RuntimeError(DivisionByZero)
             /\ Len(evaluationStack') = Len(evaluationStack) - 2
             /\ evalResult' = evalResult]_vars

C5_Reached ==
    /\ pc = "output"
    /\ RefEval(expression) = RefDivZero
    /\ result = DivisionByZero

(* C8: within one session the outcome of a request depends on its line     *)
(* alone: the same line gives the same outcome again, whatever came before *)
(* it and however that ended.                                              *)
C8_OutcomeOfLineAlone ==
    /\ \A i \in 1..Len(history) : history[i][2] = Outcome(history[i][1])
    /\ \A i, j \in 1..Len(history) :
            history[i][1] = history[j][1] => history[i][2] = history[j][2]

\* the same line before and after a line that failed
C8_Witness ==
    /\ Len(history) = 3
    /\ history[1] = <<(<<"2">>), "2">>
    /\ history[2] = <<(<<"2", "/", "0">>), DivisionByZero>>
    /\ history[3] = history[1]

(* C10: only well-formed infix token sequences give a number; two numbers  *)
(* followed by an operator, an operator before two numbers, or a number    *)
(* next to a parenthesised group end in an error.                          *)
RECURSIVE TokensAsText(_)
TokensAsText(toks) ==
    IF toks = <<>> THEN <<>>
    ELSE (IF toks[1].value = <<"~">> THEN <<"-">> ELSE toks[1].value)
           \o <<" ">> \o TokensAsText(Tail(toks))

C10_NumberOnlyIfWellFormed ==
    (pc = "evaluated" /\ thrown = NoException)
        => WellFormed(TokensAsText(tokens))

====
